---- MODULE Spec2Model ----
(***************************************************************************)
(* Model of src/agents/requirements_generator.py: the input and output     *)
(* schemas, the CurrentDateProvider, the module-level agent and the calls  *)
(* a caller makes on it (construct an input record, run the agent).        *)
(*                                                                         *)
(* Text is modelled as a sequence of one-character strings, so that        *)
(* formatting, trimming and pattern matching are computed, not assumed.    *)
(* A Python value is a record [kind, s]: kind is "str", "int", "none" or   *)
(* "missing" (the key or argument is absent), s is the text of a str.      *)
(*                                                                         *)
(* The structured-extraction engine behind requirements_generator_agent    *)
(* .run (model call, validation against output_schema, re-prompting) is    *)
(* not part of this repository's source; its loop is modelled from the     *)
(* specification (sections 4.4 and 9).  What it validates against is the   *)
(* output schema declared in the source.                                   *)
(***************************************************************************)
EXTENDS Integers, Sequences, FiniteSets, TLC

\* ------------------------------------------------------------------ bounds
MaxTicks == 2
MaxCalls == 2
MaxAttempts == 2
MaxInfoCalls == 2

\* ------------------------------------------------------------------ values
Str(t) == [kind |-> "str", s |-> t]
IntV == [kind |-> "int", s |-> <<>>]
NoneV == [kind |-> "none", s |-> <<>>]
Missing == [kind |-> "missing", s |-> <<>>]

T_Empty == <<>>
T_Paris == <<"P", "a", "r", "i", "s">>
T_PaddedParis == <<" ", "P", "a", "r", "i", "s", " ">>
T_IsoDate == <<"2", "0", "2", "4", "-", "0", "6", "-", "0", "2">>
T_Tomorrow == <<"t", "o", "m", "o", "r", "r", "o", "w">>
T_Clock == <<"0", "9", ":", "0", "0">>

\* The arguments a caller may pass as chat_message.
RawInputs == {Str(T_Empty), Str(T_PaddedParis), IntV, NoneV, Missing}

\* The user_requirements objects the model backend may answer with.
DestinationValues == {Str(T_Paris), Str(T_Empty), Missing}
DateValues == {Str(T_IsoDate), Str(T_Tomorrow), Str(T_Empty), IntV, Missing}
TimeValues == {Str(T_Clock), Str(T_Empty), Missing}
FieldNames == {"destination", "departure_date", "departure_time"}
NoFields == [destination |-> Missing, departure_date |-> Missing, departure_time |-> Missing]

\* A backend answer: a JSON object that has a user_requirements object
\* (ur_kind = "obj") or lacks the key (ur_kind = "missing").
Candidates ==
    {[ur_kind |-> "missing", ur |-> NoFields]} \cup
    {[ur_kind |-> "obj",
      ur |-> [destination |-> a, departure_date |-> b, departure_time |-> c]] :
        a \in DestinationValues, b \in DateValues, c \in TimeValues}

NoCandidate == [ur_kind |-> "none", ur |-> NoFields]
NoResult == [ok |-> FALSE, user_requirements |-> NoFields]
NoInput == [ok |-> FALSE, chat_message |-> <<>>]

\* ------------------------------------------------------------------ dates
IsLeap(y) == (y % 4 = 0 /\ y % 100 # 0) \/ y % 400 = 0

DaysInMonth(y, m) ==
    IF m = 2 THEN (IF IsLeap(y) THEN 29 ELSE 28)
    ELSE IF m \in {4, 6, 9, 11} THEN 30 ELSE 31

\* The wall clock's next calendar day.
NextDay(t) ==
    IF t.d < DaysInMonth(t.y, t.m) THEN [t EXCEPT !.d = t.d + 1]
    ELSE IF t.m < 12 THEN [y |-> t.y, m |-> t.m + 1, d |-> 1]
    ELSE [y |-> t.y + 1, m |-> 1, d |-> 1]

\* The days on which the module may be loaded: before a leap day and before
\* a new year, so that the clock's advance changes every part of the date.
StartDates == {[y |-> 2024, m |-> 2, d |-> 28], [y |-> 2024, m |-> 12, d |-> 31]}

DigitChar(n) ==
    CASE n = 0 -> "0" [] n = 1 -> "1" [] n = 2 -> "2" [] n = 3 -> "3"
      [] n = 4 -> "4" [] n = 5 -> "5" [] n = 6 -> "6" [] n = 7 -> "7"
      [] n = 8 -> "8" [] n = 9 -> "9"

\* strftime("%Y-%m-%d"): zero-padded 4-digit year, 2-digit month and day.
strftime(t) ==
    << DigitChar((t.y \div 1000) % 10), DigitChar((t.y \div 100) % 10),
       DigitChar((t.y \div 10) % 10), DigitChar(t.y % 10), "-",
       DigitChar((t.m \div 10) % 10), DigitChar(t.m % 10), "-",
       DigitChar((t.d \div 10) % 10), DigitChar(t.d % 10) >>

\* "Current date in format YYYY-MM-DD: "
InfoPrefix ==
    << "C", "u", "r", "r", "e", "n", "t", " ", "d", "a", "t", "e", " ",
       "i", "n", " ", "f", "o", "r", "m", "a", "t", " ",
       "Y", "Y", "Y", "Y", "-", "M", "M", "-", "D", "D", ":", " " >>

\* ------------------------------------------------------------------ state
VARIABLES
    now,            \* the wall clock's date
    date,           \* CurrentDateProvider.date
    constructedAt,  \* the wall clock's date when the provider was constructed
    ticks,          \* days the clock has advanced (bounded)
    rendered,       \* the strings get_info() has returned, in order
    pc,             \* where the caller's current request stands
    raw,            \* the chat_message argument of the current request
    input_schema,   \* the RequirementsGeneratorInputSchema constructed
    sent,           \* the input record handed to the engine
    attempts,       \* model calls made for the current request
    candidate,      \* the backend's latest answer
    result,         \* what run returned to the caller
    calls           \* requests completed (bounded)

vars == << now, date, constructedAt, ticks, rendered, pc, raw, input_schema,
           sent, attempts, candidate, result, calls >>

clockVars == << now, ticks >>
providerVars == << date, constructedAt >>
requestVars == << raw, input_schema, sent, attempts, candidate, result >>

Terminal == {"Valid", "Exhausted", "BackendFailure", "input_error"}
Failed == {"Exhausted", "BackendFailure", "input_error"}
InEngine == {"Pending", "Validating", "Retrying", "Valid", "Exhausted", "BackendFailure"}

\* ------------------------------------------------------------------ schemas
\* A required str field: the key is present and its value is a string.
FieldOK_AnyType(v) == v.kind # "missing"
FieldOK(v) == v.kind = "str"

UserRequirementsSchema_NoTime(ur) ==
    FieldOK(ur.destination) /\ FieldOK(ur.departure_date)
UserRequirementsSchema(ur) ==
    FieldOK(ur.destination) /\ FieldOK(ur.departure_date) /\ FieldOK(ur.departure_time)

RequirementsGeneratorOutputSchema_OpenMapping(c) == c.ur_kind = "obj"
RequirementsGeneratorOutputSchema(c) ==
    c.ur_kind = "obj" /\ UserRequirementsSchema(c.ur)

\* chat_message: str = Field(...): required, a string, no other constraint.
InputValid_Any(v) == TRUE
InputValid_NonEmpty(v) == v.kind = "str" /\ v.s # <<>>
InputValid(v) == v.kind = "str"

RECURSIVE LStrip(_)
LStrip(t) == IF t # <<>> /\ Head(t) = " " THEN LStrip(Tail(t)) ELSE t
RECURSIVE RStrip(_)
RStrip(t) ==
    IF t # <<>> /\ t[Len(t)] = " " THEN RStrip(SubSeq(t, 1, Len(t) - 1)) ELSE t

\* The record the constructor builds from a valid argument.
RequirementsGeneratorInputSchema_Stripped(v) ==
    [ok |-> TRUE, chat_message |-> LStrip(RStrip(v.s))]
RequirementsGeneratorInputSchema(v) == [ok |-> TRUE, chat_message |-> v.s]

\* ------------------------------------------------------------------ provider
\* CurrentDateProvider.get_info
get_info_Recomputed == InfoPrefix \o strftime(now)
get_info == InfoPrefix \o date

\* ------------------------------------------------------------------ init
\* The module has been loaded: the agent is built and the provider registered.
Init ==
    /\ now \in StartDates
    /\ date = strftime(now)
    /\ constructedAt = now
    /\ ticks = 0
    /\ rendered = <<>>
    /\ pc = "idle"
    /\ raw = Missing
    /\ input_schema = NoInput
    /\ sent = NoInput
    /\ attempts = 0
    /\ candidate = NoCandidate
    /\ result = NoResult
    /\ calls = 0

\* ------------------------------------------------------------------ actions
\* The wall clock passes midnight.
Tick ==
    /\ ticks < MaxTicks
    /\ now' = NextDay(now)
    /\ ticks' = ticks + 1
    /\ UNCHANGED << providerVars, rendered, pc, requestVars, calls >>

\* generate_prompt() outside a run: the provider's get_info() is rendered.
GeneratePrompt ==
    /\ pc = "idle"
    /\ Len(rendered) < MaxInfoCalls
    /\ rendered' = Append(rendered, get_info)
    /\ UNCHANGED << clockVars, providerVars, pc, requestVars, calls >>

\* RequirementsGeneratorInputSchema(chat_message=v) accepts v.
ConstructOK ==
    /\ pc = "idle"
    /\ \E v \in RawInputs :
        /\ InputValid(v)
        /\ raw' = v
        /\ input_schema' = RequirementsGeneratorInputSchema(v)
    /\ pc' = "built"
    /\ UNCHANGED << clockVars, providerVars, rendered, sent, attempts, candidate,
                    result, calls >>

\* RequirementsGeneratorInputSchema(chat_message=v) raises: nothing is built.
ConstructFail ==
    /\ pc = "idle"
    /\ \E v \in RawInputs :
        /\ ~InputValid(v)
        /\ raw' = v
    /\ pc' = "input_error"
    /\ UNCHANGED << clockVars, providerVars, rendered, input_schema, sent,
                    attempts, candidate, result, calls >>

\* requirements_generator_agent.run(input_schema): the prompt is assembled
\* (get_info() rendered) and the record is handed to the engine.
RunStart ==
    /\ pc = "built"
    /\ rendered' = Append(rendered, get_info)
    /\ sent' = input_schema
    /\ attempts' = 0
    /\ pc' = "Pending"
    /\ UNCHANGED << clockVars, providerVars, raw, input_schema, candidate,
                    result, calls >>

\* The backend answers the prompt.
BackendRespond ==
    /\ pc = "Pending"
    /\ \E c \in Candidates : candidate' = c
    /\ attempts' = attempts + 1
    /\ pc' = "Validating"
    /\ UNCHANGED << clockVars, providerVars, rendered, raw, input_schema, sent,
                    result, calls >>

\* The backend fails (network, authentication, rate limit).
BackendFail ==
    /\ pc = "Pending"
    /\ pc' = "BackendFailure"
    /\ UNCHANGED << clockVars, providerVars, rendered, requestVars, calls >>

\* The answer satisfies the output schema and is returned.
ValidateOK ==
    /\ pc = "Validating"
    /\ RequirementsGeneratorOutputSchema(candidate)
    /\ result' = [ok |-> TRUE, user_requirements |-> candidate.ur]
    /\ pc' = "Valid"
    /\ UNCHANGED << clockVars, providerVars, rendered, raw, input_schema, sent,
                    attempts, candidate, calls >>

MayRetry_Unbounded == TRUE
MayRetry == attempts < MaxAttempts

\* The answer fails validation and the budget allows another attempt.
ValidateRetry ==
    /\ pc = "Validating"
    /\ ~RequirementsGeneratorOutputSchema(candidate)
    /\ MayRetry
    /\ pc' = "Retrying"
    /\ UNCHANGED << clockVars, providerVars, rendered, requestVars, calls >>

\* The answer fails validation and the budget is spent.
ValidateExhausted ==
    /\ pc = "Validating"
    /\ ~RequirementsGeneratorOutputSchema(candidate)
    /\ ~MayRetry
    /\ pc' = "Exhausted"
    /\ UNCHANGED << clockVars, providerVars, rendered, requestVars, calls >>

\* The engine re-prompts the backend.
Reprompt ==
    /\ pc = "Retrying"
    /\ pc' = "Pending"
    /\ UNCHANGED << clockVars, providerVars, rendered, requestVars, calls >>

\* The caller is done with this request and may make another.
NextCall ==
    /\ pc \in Terminal
    /\ calls + 1 < MaxCalls
    /\ calls' = calls + 1
    /\ pc' = "idle"
    /\ raw' = Missing
    /\ input_schema' = NoInput
    /\ sent' = NoInput
    /\ attempts' = 0
    /\ candidate' = NoCandidate
    /\ result' = NoResult
    /\ UNCHANGED << clockVars, providerVars, rendered >>

Next ==
    \/ Tick
    \/ GeneratePrompt
    \/ ConstructOK
    \/ ConstructFail
    \/ RunStart
    \/ BackendRespond
    \/ BackendFail
    \/ ValidateOK
    \/ ValidateRetry
    \/ ValidateExhausted
    \/ Reprompt
    \/ NextCall

Spec == Init /\ [][Next]_vars

\* The engine's own steps are taken once enabled: the backend answers or
\* fails, validation runs, a retry re-prompts.  The caller and the clock
\* are under no obligation.
EngineStep ==
    \/ BackendRespond
    \/ BackendFail
    \/ ValidateOK
    \/ ValidateRetry
    \/ ValidateExhausted
    \/ Reprompt

FairSpec == Spec /\ WF_vars(EngineStep)

\* ------------------------------------------------------------------ claims
Present(ur) == {f \in FieldNames : ur[f].kind # "missing"}

\* ^\d{4}-\d{2}-\d{2}$
IsDigit(ch) == ch \in {"0", "1", "2", "3", "4", "5", "6", "7", "8", "9"}
MatchesIsoDate(t) ==
    /\ Len(t) = 10
    /\ \A i \in {1, 2, 3, 4, 6, 7, 9, 10} : IsDigit(t[i])
    /\ t[5] = "-" /\ t[8] = "-"

\* C1: run never returns a partially populated result.  A returned value has
\* all three user_requirements fields present and is the backend's latest
\* answer; a call that ended in failure returned nothing; and while the
\* latest answer lacks a field the call is not in the Valid outcome.
C1_NoPartialResult ==
    /\ result.ok => (pc = "Valid" /\ Present(result.user_requirements) = FieldNames)
    /\ pc = "Valid" => (result.ok /\ result.user_requirements = candidate.ur)
    /\ pc \in Failed => ~result.ok
    /\ (pc \in InEngine /\ candidate.ur_kind = "obj"
            /\ Present(candidate.ur) # FieldNames) => pc # "Valid"

\* C1 witness: every attempt's budget is spent on an answer without
\* departure_time and the call has failed with nothing returned.
C1_Witness ==
    /\ pc = "Exhausted"
    /\ attempts = MaxAttempts
    /\ candidate.ur_kind = "obj"
    /\ Present(candidate.ur) = {"destination", "departure_date"}
    /\ ~result.ok

\* C2: every get_info() return is "Current date in format YYYY-MM-DD: "
\* followed by the date at construction, however far the clock has moved,
\* so any two returns are equal; the provider's date never changes.
C2_FrozenDate ==
    /\ \A i \in 1..Len(rendered) : rendered[i] = InfoPrefix \o strftime(constructedAt)
    /\ \A i, j \in 1..Len(rendered) : rendered[i] = rendered[j]
    /\ date = strftime(constructedAt)

\* C2 witness: get_info() returned before and after the clock moved on.
C2_Witness ==
    /\ Len(rendered) >= 2
    /\ now # constructedAt
    /\ rendered[Len(rendered)] # InfoPrefix \o strftime(now)

\* C3: a chat_message that is missing or not a string makes construction
\* fail, and for that request no input record exists, nothing was handed to
\* the engine and no backend call was made.
C3_InputErrorBeforeBackend ==
    (pc # "idle" /\ raw.kind # "str") =>
        /\ pc = "input_error"
        /\ ~input_schema.ok
        /\ ~sent.ok
        /\ attempts = 0
        /\ candidate = NoCandidate

\* C3 witness: construction failed on a non-string argument.
C3_Witness == pc = "input_error" /\ raw.kind = "int" /\ attempts = 0

\* C4: the engine's loop steps Pending -> Validating -> Valid, Retrying or
\* Exhausted (or Pending -> BackendFailure), re-prompts only from Retrying,
\* which is entered only on a validation failure, makes at most MaxAttempts
\* attempts, and every call handed to the engine reaches a terminal outcome.
C4_StepOK ==
    /\ pc = "Pending" => pc' \in {"Pending", "Validating", "BackendFailure"}
    /\ pc = "Validating" => pc' \in {"Validating", "Valid", "Retrying", "Exhausted"}
    /\ pc = "Retrying" => pc' \in {"Retrying", "Pending"}
    /\ pc' = "Retrying" => ~RequirementsGeneratorOutputSchema(candidate)
    /\ (pc # "Pending" /\ pc' = "Pending") => pc \in {"built", "Retrying"}
    /\ pc \in Terminal => pc' \in {pc, "idle"}
C4_BoundedRetryTerminates ==
    /\ [][C4_StepOK]_vars
    /\ [](attempts <= MaxAttempts)
    /\ [](pc = "Pending" => <>(pc \in {"Valid", "Exhausted", "BackendFailure"}))

\* C4 witness: the budget was used up and the call ended Exhausted.
C4_Witness == pc = "Exhausted" /\ attempts = MaxAttempts /\ MaxAttempts > 1

\* C6 (as amended): a returned result's user_requirements holds at least one
\* key-value pair, every value a string, possibly the empty string.
C6_AtLeastOnePair ==
    result.ok =>
        /\ Cardinality(Present(result.user_requirements)) >= 1
        /\ \A f \in Present(result.user_requirements) :
                result.user_requirements[f].kind = "str"

\* C6 witness: a result whose three fields are all empty strings was returned.
C6_Witness ==
    /\ pc = "Valid"
    /\ result.ok
    /\ \A f \in FieldNames : result.user_requirements[f] = Str(T_Empty)

\* C6 (as claimed): a returned result has a field that is a non-empty string.
C6_Original ==
    result.ok =>
        \E f \in FieldNames :
            /\ result.user_requirements[f].kind = "str"
            /\ result.user_requirements[f].s # <<>>

\* C7 (as amended): a returned result has all three fields and each is a
\* string; nothing else about departure_date or departure_time is checked.
C7_FieldsAreStrings ==
    result.ok => \A f \in FieldNames : result.user_requirements[f].kind = "str"

\* C7 witness: a result whose departure_date is "tomorrow" was returned.
C7_Witness ==
    /\ pc = "Valid"
    /\ result.ok
    /\ result.user_requirements.departure_date = Str(T_Tomorrow)

\* C7 (as claimed): a returned result's departure_date matches
\* ^\d{4}-\d{2}-\d{2}$.
C7_Original ==
    result.ok =>
        /\ \A f \in FieldNames : result.user_requirements[f].kind = "str"
        /\ MatchesIsoDate(result.user_requirements.departure_date.s)

\* C9: reading chat_message back from a constructed input record yields the
\* string it was constructed from, character for character.
C9_RoundTrip ==
    input_schema.ok => (raw.kind = "str" /\ input_schema.chat_message = raw.s)

\* C9 witness: a record was built from a string with outer blanks.
C9_Witness ==
    /\ input_schema.ok
    /\ raw = Str(T_PaddedParis)
    /\ Len(input_schema.chat_message) = 7

\* C10: the empty string is accepted as chat_message; the record built from
\* it can be run, and is what the engine is handed.
C10_EmptyAccepted ==
    (pc # "idle" /\ raw = Str(T_Empty)) =>
        /\ pc # "input_error"
        /\ input_schema.ok /\ input_schema.chat_message = <<>>
        /\ pc = "built" => ENABLED RunStart
        /\ pc \in InEngine => sent = input_schema

\* C10 witness: the backend was called for an empty chat_message.
C10_Witness ==
    /\ raw = Str(T_Empty)
    /\ pc = "Validating"
    /\ sent.ok /\ sent.chat_message = <<>>
    /\ attempts >= 1

====
